---- MODULE Spec2Model ----
(***************************************************************************)
(* Model of the upload / render pipeline of pdf-to-whatever                *)
(* (src/src/main.rs): the yew component App with its Task Registry         *)
(* `readers` and its Result Store `files`, the Msg::Upload and Msg::Render *)
(* handlers of App::update, and the read_as_bytes callback that renders    *)
(* one document into a PNG and a JPEG zip archive.                         *)
(*                                                                         *)
(* Strings are sequences of one-character strings, so that suffix          *)
(* stripping and file-name formatting are computed, not assumed.           *)
(***************************************************************************)
EXTENDS Integers, Sequences, FiniteSets, TLC

(* ---------------------------- bounds ----------------------------------- *)
\* accepted (application/pdf) items over a whole run
MaxUploads == 2
\* items in one FileList
MaxBatch == 2
\* pages of one document
MaxPages == 2
\* rejected items over a whole run (lines written by error!)
MaxErrors == 1

(* ---------------------------- strings ---------------------------------- *)
PdfSuffix == <<".", "p", "d", "f">>
PdfMime == "application/pdf"
TextMime == "text/plain"

EndsWith(s, pat) ==
    /\ Len(pat) <= Len(s)
    /\ SubSeq(s, Len(s) - Len(pat) + 1, Len(s)) = pat

\* str::trim_end_matches: the pattern is removed from the end repeatedly
RECURSIVE TrimEndMatches(_, _)
TrimEndMatches(s, pat) ==
    IF Len(pat) > 0 /\ EndsWith(s, pat)
    THEN TrimEndMatches(SubSeq(s, 1, Len(s) - Len(pat)), pat)
    ELSE s

\* let stem = file.name().trim_end_matches(".pdf").to_string();
Stem(name) == TrimEndMatches(name, PdfSuffix)

DigitChar(d) == <<"0", "1", "2", "3", "4", "5", "6", "7", "8", "9">>[d + 1]

\* Display of an unsigned integer
RECURSIVE Decimal(_)
Decimal(n) == IF n < 10 THEN <<DigitChar(n)>>
              ELSE Decimal(n \div 10) \o <<DigitChar(n % 10)>>

\* {:0>3}: right-aligned, filled with '0' up to width 3, never truncated
RECURSIVE PadZero3(_)
PadZero3(s) == IF Len(s) >= 3 THEN s ELSE PadZero3(<<"0">> \o s)

PngExt == <<"p", "n", "g">>
JpegExt == <<"j", "p", "e", "g">>
ZipExt == <<"z", "i", "p">>

\* format!("{}-page-{:0>3}.png", stem, page_num) and its .jpeg twin
PageFileName(stem, page_num, ext) ==
    stem \o <<"-", "p", "a", "g", "e", "-">> \o PadZero3(Decimal(page_num))
         \o <<".">> \o ext

(* ---------------------------- inputs ----------------------------------- *)
\* display names: a plain one, one that ends in the suffix twice, and the
\* bare suffix
Names == { <<"a">> \o PdfSuffix,
           <<"a">> \o PdfSuffix \o PdfSuffix,
           PdfSuffix }

\* A web_sys File as the handlers see it: display name, declared media type,
\* and whether its bytes can be read, decoded and rendered without any
\* library call failing.  The bytes themselves (page count) are first seen
\* by the read callback.  A rejected item is never read.
Files == [name : Names, mime : {PdfMime}, sound : BOOLEAN]
         \cup [name : {<<"a">> \o PdfSuffix}, mime : {TextMime}, sound : {TRUE}]

Batches == UNION { [1..n -> Files] : n \in 0..MaxBatch }

Stems == { Stem(n) : n \in Names }
TaskIds == 1..MaxUploads

(* ---------------------------- HashMap ---------------------------------- *)
EmptyMap == [k \in {} |-> 0]

\* variant: the value of a key that is present is kept (entry().or_insert)
MapInsert_IfAbsent(m, k, v) ==
    [x \in DOMAIN m \cup {k} |-> IF x = k /\ k \notin DOMAIN m THEN v ELSE m[x]]

\* HashMap::insert: an existing value for the key is replaced
MapInsert(m, k, v) == [x \in DOMAIN m \cup {k} |-> IF x = k THEN v ELSE m[x]]

\* HashMap::remove: removing an absent key changes nothing
MapRemove(m, k) == [x \in DOMAIN m \ {k} |-> m[x]]

\* the value HashMap::insert / HashMap::remove hands back (0 stands for None)
MapGet(m, k) == IF k \in DOMAIN m THEN m[k] ELSE 0

(* ---------------------------- state ------------------------------------ *)
VARIABLES
    readers,   \* App.readers : stem -> FileReader (identified by its number)
    files,     \* App.files   : sequence of RenderedImage
    tasks,     \* the FileReader objects created so far and their read state
    msgs,      \* Msg::Render messages sent through the link, not yet handled
    errors,    \* lines written by error! for rejected items
    origin,    \* history: origin[i] is the FileReader removed when files[i] was pushed
    run        \* the read callback that is running, at page granularity

vars == <<readers, files, tasks, msgs, errors, origin, run>>

\* no callback is running
NoRun == [t |-> 0]

\* App::create
Init ==
    /\ readers = EmptyMap
    /\ files = <<>>
    /\ tasks = <<>>
    /\ msgs = <<>>
    /\ errors = 0
    /\ origin = <<>>
    /\ run = NoRun

(* ---------------------------- FileReader ------------------------------- *)
\* gloo::file::callbacks::read_as_bytes: a new reader, its read under way
\* pages: the page count the callback found once it has rendered the
\* document to the end, -1 before that
NewReader(file) ==
    [stem |-> Stem(file.name), sound |-> file.sound, state |-> "loading", pages |-> -1]

\* variant: a dropped handle leaves its read running
DropReader_NoAbort(ts, t) == ts

\* Dropping a FileReader handle aborts a read that has not finished; its
\* callback is then never called.  t = 0: nothing to drop.
DropReader(ts, t) ==
    IF t \in 1..Len(ts) /\ ts[t].state = "loading"
    THEN [ts EXCEPT ![t].state = "aborted"]
    ELSE ts

(* ---------------------------- Msg::Upload ------------------------------ *)
\* variant: the media type is not looked at
Accepted_Any(file) == TRUE

\* if mime_type != "application/pdf" { error!(..); continue; }
Accepted(file) == file.mime = PdfMime

\* variant: the entry of an identifier that has one is kept
\* (entry(stem).or_insert_with), the new reader is dropped at once
RegisterTask_KeepFirst(st, file) ==
    LET stem == Stem(file.name)
        started == Append(st.tasks, NewReader(file))
    IN IF stem \in DOMAIN st.readers
       THEN [st EXCEPT !.tasks = DropReader(started, Len(started))]
       ELSE [st EXCEPT !.readers = MapInsert(st.readers, stem, Len(started)),
                       !.tasks = started]

\* variant: an identifier that is in the Result Store is not taken again
RegisterTask_OncePerId(st, file) ==
    LET stem == Stem(file.name)
        started == Append(st.tasks, NewReader(file))
        old == MapGet(st.readers, stem)
    IN IF \E i \in 1..Len(st.files) : st.files[i].stem = stem
       THEN [st EXCEPT !.tasks = DropReader(started, Len(started))]
       ELSE [st EXCEPT !.readers = MapInsert(st.readers, stem, Len(started)),
                       !.tasks = DropReader(started, old)]

\* self.readers.insert(stem.clone(), read_as_bytes(file, ..)) on the
\* registry and the readers; the handle insert returns is dropped
RegisterTask(st, file) ==
    LET stem == Stem(file.name)
        started == Append(st.tasks, NewReader(file))
        old == MapGet(st.readers, stem)
    IN [st EXCEPT !.readers = MapInsert(st.readers, stem, Len(started)),
                  !.tasks = DropReader(started, old)]

\* one iteration of `for file in FileList::from(files).iter()`
UploadItem(st, file) ==
    IF ~Accepted(file)
    THEN [st EXCEPT !.errors = @ + 1]
    ELSE RegisterTask(st, file)

\* the whole loop, first item first
RECURSIVE UploadLoop(_, _)
UploadLoop(st, batch) ==
    IF batch = <<>> THEN st
    ELSE UploadLoop(UploadItem(st, Head(batch)), Tail(batch))

\* &mut self as the handler gets it, with the readers and the console
Self == [readers |-> readers, files |-> files, tasks |-> tasks, errors |-> errors]

NumAccepted(batch) == Cardinality({i \in DOMAIN batch : batch[i].mime = PdfMime})

\* App::update, Msg::Upload(files).  The scheduler hands over one message
\* at a time and a Msg::Render sent by a callback is handled before the
\* browser dispatches the next event, hence msgs = <<>>.
Upload(batch) ==
    /\ msgs = <<>>
    /\ Len(tasks) + NumAccepted(batch) <= MaxUploads
    /\ errors + (Len(batch) - NumAccepted(batch)) <= MaxErrors
    /\ LET st == UploadLoop(Self, batch)
       IN /\ readers' = st.readers
          /\ files' = st.files
          /\ tasks' = st.tasks
          /\ errors' = st.errors
    /\ UNCHANGED <<msgs, origin, run>>

(* ---------------------------- rendering -------------------------------- *)
\* The places where the callback can panic.  page = 0 for the ones outside
\* the page loop.
NoFault == [stage |-> "none", page |-> 0]
PageStages == {"png_start", "png_write", "png_decode", "jpeg_encode",
               "jpeg_start", "jpeg_write"}
FaultSites(pages) ==
    { [stage |-> s, page |-> 0] : s \in {"read", "decode", "png_finish", "jpeg_finish"} }
    \cup { [stage |-> s, page |-> p] : s \in PageStages, p \in 1..pages }

\* ZipWriter::new(Cursor::new(Vec::new()))
NewZip == <<>>

\* ZipWriter::start_file: a new, empty entry at the end of the archive
StartFile(zip, name) == Append(zip, [name |-> name, data |-> <<>>])

\* Write::write_all on a ZipWriter: bytes go to the entry started last
WriteAll(zip, bytes) == [zip EXCEPT ![Len(zip)].data = @ \o bytes]

\* ZipWriter::finish().into_inner(): the archive as bytes
Finish(zip) == [container |-> "zip", entries |-> zip]

\* the encoded image of one page (the pixels are not modelled)
PageBytes(page_num, format) == << [page |-> page_num, format |-> format] >>

\* variant: the index of enumerate() is used as the page number
PageNum_ZeroBased(index) == index

\* let page_num = page_num + 1; // 1-indexed!
PageNum(index) == index + 1

\* for (page_num, page) in pdf.pages().iter().enumerate() { .. }, from the
\* iteration with the given index on; zw = the two zip writers.  A panic
\* leaves the loop at once.
RECURSIVE PageLoop(_, _, _, _, _)
\* variant: a page that fails is skipped and the loop goes on
PageLoop_SkipFailedPage(stem, index, pages, fault, zw) ==
    IF index >= pages THEN [panicked |-> FALSE, png |-> zw.png, jpeg |-> zw.jpeg]
    ELSE
    LET page_num == PageNum(index)
        png2 == WriteAll(StartFile(zw.png, PageFileName(stem, page_num, PngExt)),
                         PageBytes(page_num, "png"))
        jpeg2 == WriteAll(StartFile(zw.jpeg, PageFileName(stem, page_num, JpegExt)),
                          PageBytes(page_num, "jpeg"))
    IN  IF fault.page = index + 1
        THEN PageLoop(stem, index + 1, pages, fault, zw)
        ELSE PageLoop(stem, index + 1, pages, fault, [png |-> png2, jpeg |-> jpeg2])

PageLoop(stem, index, pages, fault, zw) ==
    IF index >= pages THEN [panicked |-> FALSE, png |-> zw.png, jpeg |-> zw.jpeg]
    ELSE
    LET page_num == PageNum(index)
        Fails(stage) == fault = [stage |-> stage, page |-> index + 1]
        Panic(p, j) == [panicked |-> TRUE, png |-> p, jpeg |-> j]
        png_bytes == PageBytes(page_num, "png")
        jpeg_bytes == PageBytes(page_num, "jpeg")
        png1 == StartFile(zw.png, PageFileName(stem, page_num, PngExt))
        png2 == WriteAll(png1, png_bytes)
        jpeg1 == StartFile(zw.jpeg, PageFileName(stem, page_num, JpegExt))
        jpeg2 == WriteAll(jpeg1, jpeg_bytes)
    IN  IF Fails("png_start") THEN Panic(zw.png, zw.jpeg)
        ELSE IF Fails("png_write") THEN Panic(png1, zw.jpeg)
        ELSE IF Fails("png_decode") \/ Fails("jpeg_encode") \/ Fails("jpeg_start")
             THEN Panic(png2, zw.jpeg)
        ELSE IF Fails("jpeg_write") THEN Panic(png2, jpeg1)
        ELSE PageLoop(stem, index + 1, pages, fault, [png |-> png2, jpeg |-> jpeg2])

\* The closure given to read_as_bytes, up to link.send_message: either it
\* panics, or it builds the RenderedImage it sends.  pdf_human_size is a
\* display string that nothing here reads; it is left out.
RenderDocument(stem, pages, fault) ==
    LET loop == PageLoop(stem, 0, pages, fault, [png |-> NewZip, jpeg |-> NewZip])
    IN  IF fault.stage \in {"read", "decode"} THEN [panicked |-> TRUE]
        ELSE IF loop.panicked THEN [panicked |-> TRUE]
        ELSE IF fault.stage \in {"png_finish", "jpeg_finish"} THEN [panicked |-> TRUE]
        ELSE [panicked |-> FALSE,
              file |-> [stem |-> stem,
                        png_zip |-> Finish(loop.png),
                        jpeg_zip |-> Finish(loop.jpeg)]]

\* variant: a panic takes the whole application down, no other read is
\* ever delivered
ReadCallback_Fatal(t) ==
    /\ t \in 1..Len(tasks)
    /\ tasks[t].state = "loading"
    /\ msgs = <<>>
    /\ \E pages \in 0..MaxPages :
       \E fault \in (IF tasks[t].sound THEN {NoFault} ELSE FaultSites(pages)) :
          LET r == RenderDocument(tasks[t].stem, pages, fault)
          IN IF r.panicked
             THEN /\ tasks' = [u \in 1..Len(tasks) |->
                                 IF u = t THEN [tasks[u] EXCEPT !.state = "panicked"]
                                 ELSE IF tasks[u].state = "loading"
                                      THEN [tasks[u] EXCEPT !.state = "aborted"]
                                      ELSE tasks[u]]
                  /\ msgs' = msgs
             ELSE /\ tasks' = [tasks EXCEPT ![t].state = "sent", ![t].pages = pages]
                  /\ msgs' = Append(msgs, r.file)
    /\ UNCHANGED <<readers, files, errors, origin, run>>

\* The load event of reader t: the callback runs from its first line to its
\* last without giving control back to the browser.  A panic ends the
\* callback there: nothing is sent, App is left as it is.
ReadCallback(t) ==
    /\ t \in 1..Len(tasks)
    /\ tasks[t].state = "loading"
    /\ msgs = <<>>
    /\ \E pages \in 0..MaxPages :
       \E fault \in (IF tasks[t].sound THEN {NoFault} ELSE FaultSites(pages)) :
          LET r == RenderDocument(tasks[t].stem, pages, fault)
          IN IF r.panicked
             THEN /\ tasks' = [tasks EXCEPT ![t].state = "panicked"]
                  /\ msgs' = msgs
             ELSE /\ tasks' = [tasks EXCEPT ![t].state = "sent", ![t].pages = pages]
                  /\ msgs' = Append(msgs, r.file)
    /\ UNCHANGED <<readers, files, errors, origin, run>>

(* ---------------------------- Msg::Render ------------------------------ *)
\* variant: the entry is not removed
CompleteTask_NoRemove(st, stem) == [readers |-> st.readers, tasks |-> st.tasks]

\* variant: the registry is emptied, whatever the identifier
CompleteTask_Clear(st, stem) ==
    [readers |-> EmptyMap,
     tasks |-> DropReader(st.tasks, MapGet(st.readers, stem))]

\* self.readers.remove(&file.stem): the handle taken out is dropped
CompleteTask(st, stem) ==
    [readers |-> MapRemove(st.readers, stem),
     tasks |-> DropReader(st.tasks, MapGet(st.readers, stem))]

\* variant: the result is not stored
PushFile_Lost(fs, file) == fs

\* variant: the result is stored twice
PushFile_Twice(fs, file) == Append(Append(fs, file), file)

\* variant: the result is put in front
PushFile_Front(fs, file) == <<file>> \o fs

\* self.files.push(file)
PushFile(fs, file) == Append(fs, file)

\* App::update, Msg::Render(file)
HandleRender ==
    /\ msgs # <<>>
    /\ LET file == Head(msgs)
           st == CompleteTask([readers |-> readers, tasks |-> tasks], file.stem)
       IN /\ readers' = st.readers
          /\ tasks' = st.tasks
          /\ files' = PushFile(files, file)
          /\ origin' = Append(origin, MapGet(readers, file.stem))
    /\ msgs' = Tail(msgs)
    /\ UNCHANGED <<errors, run>>

(* ---------------------------- view_file -------------------------------- *)
\* variant: the link is named after the image format
DownloadName_Png(file) == file.stem \o <<".">> \o PngExt

\* download={file.stem.clone() + ".zip"}, the same for both links
DownloadName(file) == file.stem \o <<".">> \o ZipExt

\* App::view_file: the two download links of one RenderedImage
ViewFile(file) ==
    << [label |-> "PNG", bytes |-> file.png_zip, download |-> DownloadName(file)],
       [label |-> "JPEG", bytes |-> file.jpeg_zip, download |-> DownloadName(file)] >>

(* ---------------------------- specification ---------------------------- *)
\* the batches that fit the bounds in the current state (the guards of
\* Upload decide; this only keeps the enumeration short)
FilesNow ==
    { f \in Files : IF f.mime = PdfMime THEN Len(tasks) < MaxUploads
                                        ELSE errors < MaxErrors }
BatchesNow ==
    IF msgs # <<>> THEN {}
    ELSE UNION { [1..n -> FilesNow] : n \in 0..MaxBatch }

Next ==
    \/ \E batch \in BatchesNow : Upload(batch)
    \/ \E t \in TaskIds : ReadCallback(t)
    \/ HandleRender

Spec == Init /\ [][Next]_vars

\* The browser delivers the load event of every read it has not aborted,
\* and the scheduler handles every message sent to the component.
FairSpec ==
    /\ Spec
    /\ \A t \in TaskIds : WF_vars(ReadCallback(t))
    /\ WF_vars(HandleRender)

(* ---------------------------- the callback, page by page --------------- *)
\* The same closure cut at its loop iterations: run holds the reader whose
\* callback is on the stack, the page index reached and the two zip
\* writers.  The closure has no await and wasm has one thread, so the
\* browser delivers no other event and the scheduler no message before it
\* returns or panics.

\* lines 78-84: take the bytes, parse them, open the two writers
CallbackBegin(t) ==
    /\ run = NoRun
    /\ t \in 1..Len(tasks)
    /\ tasks[t].state = "loading"
    /\ msgs = <<>>
    /\ \E pages \in 0..MaxPages :
       \E fault \in (IF tasks[t].sound THEN {NoFault} ELSE FaultSites(pages)) :
          IF fault.stage \in {"read", "decode"}
          THEN /\ tasks' = [tasks EXCEPT ![t].state = "panicked"]
               /\ run' = NoRun
          ELSE /\ tasks' = tasks
               /\ run' = [t |-> t, pages |-> pages, fault |-> fault, index |-> 0,
                          zw |-> [png |-> NewZip, jpeg |-> NewZip]]
    /\ UNCHANGED <<readers, files, msgs, errors, origin>>

\* lines 85-126: one iteration of the page loop
CallbackPage ==
    /\ run # NoRun
    /\ run.index < run.pages
    /\ LET r == PageLoop(tasks[run.t].stem, run.index, run.index + 1, run.fault, run.zw)
       IN IF r.panicked
          THEN /\ tasks' = [tasks EXCEPT ![run.t].state = "panicked"]
               /\ run' = NoRun
          ELSE /\ tasks' = tasks
               /\ run' = [run EXCEPT !.index = @ + 1,
                                     !.zw = [png |-> r.png, jpeg |-> r.jpeg]]
    /\ UNCHANGED <<readers, files, msgs, errors, origin>>

\* lines 134-145: finish both archives and send Msg::Render
CallbackEnd ==
    /\ run # NoRun
    /\ run.index = run.pages
    /\ IF run.fault.stage \in {"png_finish", "jpeg_finish"}
       THEN /\ tasks' = [tasks EXCEPT ![run.t].state = "panicked"]
            /\ msgs' = msgs
       ELSE /\ tasks' = [tasks EXCEPT ![run.t].state = "sent", ![run.t].pages = run.pages]
            /\ msgs' = Append(msgs, [stem |-> tasks[run.t].stem,
                                     png_zip |-> Finish(run.zw.png),
                                     jpeg_zip |-> Finish(run.zw.jpeg)])
    /\ run' = NoRun
    /\ UNCHANGED <<readers, files, errors, origin>>

\* an Upload event is delivered only when no callback is on the stack
StepUpload(batch) == run = NoRun /\ Upload(batch)

\* a message is handled only when no callback is on the stack
StepRender == run = NoRun /\ HandleRender

StepNext ==
    \/ \E batch \in BatchesNow : StepUpload(batch)
    \/ \E t \in TaskIds : CallbackBegin(t)
    \/ CallbackPage
    \/ CallbackEnd
    \/ StepRender

StepSpec == Init /\ [][StepNext]_vars

(* ---------------------------- type ------------------------------------- *)
TypeOK ==
    /\ DOMAIN readers \subseteq Stems
    /\ \A s \in DOMAIN readers : readers[s] \in 1..Len(tasks)
    /\ Len(tasks) <= MaxUploads
    /\ \A t \in 1..Len(tasks) :
          /\ tasks[t].state \in {"loading", "sent", "panicked", "aborted"}
          /\ tasks[t].stem \in Stems
          /\ tasks[t].pages \in -1..MaxPages
          /\ tasks[t].pages >= 0 <=> tasks[t].state = "sent"
    /\ \A i \in 1..Len(origin) : origin[i] \in 0..Len(tasks)
    /\ Len(msgs) <= 1
    /\ errors \in 0..MaxErrors
    /\ Len(origin) = Len(files)
    /\ run = NoRun \/ (run.t \in 1..Len(tasks) /\ run.index \in 0..run.pages
                      /\ run.pages \in 0..MaxPages /\ tasks[run.t].state = "loading")

(* ---------------------------- vocabulary of the properties ------------- *)
TaskSet == 1..Len(tasks)

\* entries of the Result Store with the given identifier
Entries(stem) == Cardinality({ i \in 1..Len(files) : files[i].stem = stem })

\* accepted uploads with the given identifier
Uploads(stem) == Cardinality({ t \in TaskSet : tasks[t].stem = stem })

\* the reader's result was pushed to the Result Store
Completed(t) == \E i \in 1..Len(origin) : origin[i] = t

\* the reader is the one the registry holds
Registered(t) == \E s \in DOMAIN readers : readers[s] = t

\* no identifier was derived twice
DistinctIds == \A t, u \in TaskSet : t # u => tasks[t].stem # tasks[u].stem

\* no read is under way and no message is waiting
Settled == msgs = <<>> /\ \A t \in TaskSet : tasks[t].state # "loading"

(* ---------------------------- C1 --------------------------------------- *)
\* C1: when all accepted items have distinct identifiers and every render
\* has settled (the registry is empty, or no read is under way and no
\* message waits), the Result Store holds exactly one entry for each
\* document whose render succeeded, none for a document whose render
\* failed, and nothing else.
C1_SettledStoreIsSuccesses ==
    (DistinctIds /\ (Settled \/ DOMAIN readers = {})) =>
        /\ \A t \in TaskSet :
              /\ tasks[t].state = "sent" => Entries(tasks[t].stem) = 1
              /\ tasks[t].state = "panicked" => Entries(tasks[t].stem) = 0
        /\ Len(files) = Cardinality({ t \in TaskSet : tasks[t].state = "sent" })

\* two documents of one batch, one rendered and stored, one failed
C1_Witness ==
    /\ DistinctIds /\ Settled
    /\ Len(tasks) = 2 /\ errors = 0
    /\ tasks[1].state = "sent" /\ tasks[2].state = "panicked"
    /\ Len(files) = 1

\* both documents of a batch rendered, registry empty again
C1_WitnessEmptyRegistry ==
    /\ DistinctIds /\ DOMAIN readers = {}
    /\ Len(tasks) = 2 /\ Len(files) = 2

(* ---------------------------- C2 --------------------------------------- *)
\* the identifiers of the readers a step has started
StartedStems == { tasks'[u].stem : u \in (Len(tasks) + 1)..Len(tasks') }

C3_Original ==
    \A s \in Stems :
        /\ ~(s \in DOMAIN readers /\ Entries(s) >= 1)
        /\ Entries(s) <= 1

\* C3, amended: for every identifier, the entries in the Result Store plus
\* the registry entry (if there is one) number at most the accepted uploads
\* of that identifier; so an identifier uploaded once is never in both
\* and never has two entries.
C3_AtMostOnePerUpload ==
    \A s \in Stems :
        Entries(s) + (IF s \in DOMAIN readers THEN 1 ELSE 0) <= Uploads(s)

\* an identifier uploaded once, rendered and stored
C3_Witness ==
    \E s \in Stems : Uploads(s) = 1 /\ Entries(s) = 1 /\ s \notin DOMAIN readers

(* ---------------------------- C4 --------------------------------------- *)
\* C4: a document whose render has failed is no longer in the Task
\* Registry once nothing is in flight for it.
C4_FailedTaskReleased ==
    msgs = <<>> => \A t \in TaskSet : tasks[t].state = "panicked" => ~Registered(t)

(* ---------------------------- C5 --------------------------------------- *)
\* document t is pending, every step of its own render would succeed, and
\* the render of a document with another identifier has failed or is
\* pending and going to fail
PendingBesideFailure(t) ==
    /\ t \in TaskSet
    /\ tasks[t].state = "loading" /\ tasks[t].sound
    /\ \E u \in TaskSet :
          /\ tasks[u].stem # tasks[t].stem
          /\ ~tasks[u].sound
          /\ tasks[u].state \in {"loading", "panicked"}

\* document t was rendered: its task left the registry and its result is
\* in the Result Store
Delivered(t) ==
    /\ t \in TaskSet
    /\ Completed(t) /\ ~Registered(t)
    /\ \E i \in 1..Len(files) : origin[i] = t /\ files[i].stem = tasks[t].stem

\* a later upload of the same identifier has taken the registry entry
Replaced(t) ==
    /\ t \in TaskSet
    /\ \E u \in TaskSet : u > t /\ tasks[u].stem = tasks[t].stem

WholeArchive(zip, pages, format) ==
    /\ zip.container = "zip"
    /\ Len(zip.entries) = pages
    /\ \A k \in 1..Len(zip.entries) :
          zip.entries[k].data = << [page |-> k, format |-> format] >>

\* C6: every entry of the Result Store comes from a render that reached its
\* end: both archives are finished and hold every page of the document,
\* written; a document whose render failed has no entry.
C6_NoPartialResult ==
    /\ \A i \in 1..Len(files) :
          /\ origin[i] \in TaskSet
          /\ tasks[origin[i]].state = "sent"
          /\ WholeArchive(files[i].png_zip, tasks[origin[i]].pages, "png")
          /\ WholeArchive(files[i].jpeg_zip, tasks[origin[i]].pages, "jpeg")
    /\ \A t \in TaskSet : tasks[t].state = "panicked" => ~Completed(t)

\* a two-page document is stored, a failed one is not
C6_Witness ==
    /\ \E i \in 1..Len(files) : Len(files[i].png_zip.entries) = 2
    /\ \E t \in TaskSet : tasks[t].state = "panicked" /\ Entries(tasks[t].stem) = 0

(* ---------------------------- C7 --------------------------------------- *)
DeclaredPdf(file) == file.mime = PdfMime

\* C7: in every reachable state and for every batch the handler can be
\* given there, processing the batch leaves the Task Registry, the readers
\* and the Result Store as processing the batch without the items that are
\* not application/pdf does; the Result Store is as before.
C7_RejectedItemsAreSkipped ==
    \A batch \in BatchesNow : (\E i \in DOMAIN batch : ~DeclaredPdf(batch[i])) =>
        LET whole == UploadLoop(Self, batch)
            kept == UploadLoop(Self, SelectSeq(batch, DeclaredPdf))
        IN /\ whole.readers = kept.readers
           /\ whole.tasks = kept.tasks
           /\ whole.files = kept.files
           /\ whole.files = files
           /\ Len(kept.tasks) = Len(tasks) + Len(SelectSeq(batch, DeclaredPdf))

\* a batch with a rejected item between or beside accepted ones was taken
C7_Witness ==
    /\ errors = 1
    /\ Len(tasks) = 1 /\ tasks[1].state = "loading"
    /\ DOMAIN readers = {tasks[1].stem}

(* ---------------------------- C8 --------------------------------------- *)
Page001 == <<"-", "p", "a", "g", "e", "-", "0", "0", "1", ".">>

OnePage(i) == origin[i] \in TaskSet /\ tasks[origin[i]].pages = 1

ThreeDigits(k) ==
    <<DigitChar(k \div 100), DigitChar((k \div 10) % 10), DigitChar(k % 10)>>

EntryName(id, k, ext) ==
    id \o <<"-", "p", "a", "g", "e", "-">> \o ThreeDigits(k) \o <<".">> \o ext

\* C9: for a document with P > 1 pages each archive has exactly P entries,
\* the k-th named "<id>-page-<k in three digits>.<ext>".
C9_ArchiveEntries ==
    \A i \in 1..Len(files) :
        (origin[i] \in TaskSet /\ tasks[origin[i]].pages > 1) =>
            LET P == tasks[origin[i]].pages
                id == tasks[origin[i]].stem
                png == files[i].png_zip.entries
                jpeg == files[i].jpeg_zip.entries
            IN /\ Len(png) = P
               /\ Len(jpeg) = P
               /\ \A k \in 1..P :
                     /\ png[k].name = EntryName(id, k, PngExt)
                     /\ jpeg[k].name = EntryName(id, k, JpegExt)

\* a document with the most pages the bounds allow is in the Result Store
C9_Witness ==
    \E i \in 1..Len(files) :
        /\ origin[i] \in TaskSet
        /\ tasks[origin[i]].pages = MaxPages /\ MaxPages > 1
        /\ Len(files[i].png_zip.entries) = MaxPages

(* ---------------------------- C10 -------------------------------------- *)
\* C10: a document that decodes to zero pages is never appended to the
\* Result Store.
C10_EmptyDocumentNotStored ==
    \A i \in 1..Len(files) :
        origin[i] \in TaskSet => tasks[origin[i]].pages # 0

(* ---------------------------- C11 -------------------------------------- *)
\* the identifier has a completed render and no task in the registry
Idle(s) == Entries(s) >= 1 /\ s \notin DOMAIN readers

\* C11: once an identifier's render has completed and its task has left the
\* registry, an accepted document with that identifier is taken again:
\* Msg::Upload registers a new task for it and starts its read; and no
\* step that starts a reader for such an identifier leaves it unregistered.
C11_IdleIsReenterable ==
    /\ [](\A f \in FilesNow : (Accepted(f) /\ Idle(Stem(f.name))) =>
            LET st == UploadLoop(Self, <<f>>)
                s == Stem(f.name)
            IN /\ s \in DOMAIN st.readers
               /\ st.readers[s] = Len(tasks) + 1
               /\ Len(st.tasks) = Len(tasks) + 1
               /\ st.tasks[st.readers[s]].state = "loading"
               /\ st.files = files)
    /\ [][\A s \in Stems : (Idle(s) /\ s \in StartedStems) =>
            /\ s \in DOMAIN readers'
            /\ readers'[s] > Len(tasks)
            /\ tasks'[readers'[s]].state = "loading"
            /\ files' = files]_vars

\* an identifier was rendered and stored, then uploaded again, and the
\* second render was stored too
C11_Witness ==
    \E s \in Stems :
        /\ Uploads(s) = 2 /\ Entries(s) = 2
        /\ origin = <<1, 2>>
        /\ tasks[1].state = "sent" /\ tasks[2].state = "sent"

(* ---------------------------- C12 -------------------------------------- *)
IsPrefix(p, q) == Len(p) <= Len(q) /\ SubSeq(q, 1, Len(p)) = p

\* C12: in every step the Result Store of before is a prefix of the one
\* after; what a step adds is the one file of the Msg::Render it handles,
\* at the end, so the entries are in the order the completions were handled.
C12_AppendOnly ==
    [][/\ IsPrefix(files, files')
       /\ files' # files => (msgs # <<>> /\ files' = Append(files, Head(msgs)))]_vars

\* the document uploaded second was stored first
C12_Witness ==
    /\ origin = <<2, 1>>
    /\ Len(files) = 2
    /\ files[1] # files[2]

(* ---------------------------- C13 -------------------------------------- *)
\* C13: for every identifier, completing it a second time leaves the
\* registry and the readers as the first completion left them, and
\* completing an identifier that is not in the registry changes nothing.
C13_CompleteIdempotent ==
    \A s \in Stems :
        LET st == [readers |-> readers, tasks |-> tasks]
            once == CompleteTask(st, s)
            twice == CompleteTask(once, s)
        IN /\ twice = once
           /\ s \notin DOMAIN once.readers
           /\ DOMAIN once.readers = DOMAIN readers \ {s}
           /\ \A k \in DOMAIN once.readers : once.readers[k] = readers[k]
           /\ s \notin DOMAIN readers => once = st

\* one identifier was completed and is gone from the registry while the
\* other one is still registered
C13_Witness ==
    \E s \in Stems :
        /\ Entries(s) = 1 /\ s \notin DOMAIN readers
        /\ DOMAIN readers # {}

(* ---------------------------- C14 -------------------------------------- *)
\* C14: every key of the Task Registry and every identifier of a Result
\* Store entry is a non-empty string.
C14_NonEmptyIds ==
    /\ \A s \in DOMAIN readers : Len(s) > 0
    /\ \A i \in 1..Len(files) : Len(files[i].stem) > 0

(* ---------------------------- C15 -------------------------------------- *)
\* the render of reader t was started and is neither completed nor aborted
\* nor ended by a panic
Active(t) ==
    \/ tasks[t].state = "loading"
    \/ tasks[t].state = "sent" /\ ~Completed(t)

\* C15: no identifier has two active render tasks, and an active task is
\* the one the registry holds for its identifier.
C15_OneActivePerId ==
    /\ \A t, u \in TaskSet :
          (Active(t) /\ Active(u) /\ tasks[t].stem = tasks[u].stem) => t = u
    /\ \A t \in TaskSet :
          Active(t) => (tasks[t].stem \in DOMAIN readers /\ readers[tasks[t].stem] = t)

\* two uploads of one identifier: the first read aborted, the second active
C15_Witness ==
    /\ Len(tasks) = 2
    /\ tasks[1].stem = tasks[2].stem
    /\ tasks[1].state = "aborted"
    /\ Active(2)


\* the callback on the stack is between two iterations of its page loop
MidRender == run # NoRun /\ 0 < run.index /\ run.index < run.pages

\* something other than the running callback that is waiting to be
\* processed: a file the user can upload, or another loaded document
OtherWork ==
    \/ \E f \in FilesNow : Accepted(f)
    \/ \E u \in TaskSet : u # run.t /\ tasks[u].state = "loading"

\* an Upload event, or the first step of another document's render
OtherEvent ==
    \/ \E f \in FilesNow : Accepted(f) /\ StepUpload(<<f>>)
    \/ \E u \in TaskIds : u # run.t /\ CallbackBegin(u)

\* C16: a render in progress does not block the rest of the system:
\* between two page steps of one document, an Upload event or a step of
\* another document's render can be processed.
C16_RenderDoesNotBlock == (MidRender /\ OtherWork) => ENABLED OtherEvent


(* ---------------------------- C17 -------------------------------------- *)
\* the display name with one ".pdf" taken from its end
StripOnce(name) ==
    IF EndsWith(name, PdfSuffix) THEN SubSeq(name, 1, Len(name) - Len(PdfSuffix))
    ELSE name

\* C17: the identifier under which an accepted file is registered is its
\* display name with the ".pdf" suffix stripped once, so accepted files with
\* different display names get different identifiers.
C17_StrippedOnce ==
    /\ \A f \in FilesNow : Accepted(f) =>
          LET st == UploadLoop(Self, <<f>>)
          IN /\ st.tasks[Len(st.tasks)].stem = StripOnce(f.name)
             /\ MapGet(st.readers, StripOnce(f.name)) = Len(st.tasks)
    /\ \A f, g \in FilesNow : (Accepted(f) /\ Accepted(g) /\ f.name # g.name) =>
          LET st == UploadLoop(Self, <<f>>)
              su == UploadLoop(Self, <<g>>)
          IN st.tasks[Len(st.tasks)].stem # su.tasks[Len(su.tasks)].stem

(* ---------------------------- C18 -------------------------------------- *)
\* C18: the Result Store has at most as many entries as accepted items were
\* processed, every entry comes from a reader of its own that the registry
\* held, and the identifier of a Msg::Render that waits to be handled is a
\* key of the registry.
C18_AtMostOnePerItem ==
    /\ Len(files) <= Len(tasks)
    /\ \A i \in 1..Len(files) :
          /\ origin[i] \in TaskSet
          /\ tasks[origin[i]].stem = files[i].stem
          /\ \A j \in 1..Len(files) : origin[i] = origin[j] => i = j
    /\ msgs # <<>> => Head(msgs).stem \in DOMAIN readers

\* every accepted item has its one entry
C18_Witness ==
    /\ Len(tasks) = 2
    /\ Len(files) = 2
    /\ origin[1] # origin[2]
    /\ DOMAIN readers = {}

(* ---------------------------- C19 -------------------------------------- *)
\* the newest reader of the identifier
Latest(ts, s) == CHOOSE t \in 1..Len(ts) :
    ts[t].stem = s /\ \A u \in 1..Len(ts) : ts[u].stem = s => u <= t

\* C19: an accepted item whose identifier has an entry in the registry,
\* from an earlier batch or from an earlier item of the batch, replaces the
\* entry by its own reader and the reader held before is dropped (it is no
\* longer reading); the key set stays the same, the other entries too, and
\* an entry always names the newest reader of its identifier.
C19_InsertReplaces ==
    /\ \A s \in DOMAIN readers : readers[s] = Latest(tasks, s)
    /\ \A f \in FilesNow : (Accepted(f) /\ Stem(f.name) \in DOMAIN readers) =>
          LET s == Stem(f.name)
              st == UploadItem(Self, f)
          IN /\ DOMAIN st.readers = DOMAIN readers
             /\ st.readers[s] = Len(tasks) + 1
             /\ st.tasks[st.readers[s]].state = "loading"
             /\ st.tasks[readers[s]].state # "loading"
             /\ \A k \in DOMAIN readers \ {s} : st.readers[k] = readers[k]
    /\ \A f, g \in FilesNow :
          (Accepted(f) /\ Accepted(g) /\ Stem(f.name) = Stem(g.name)
             /\ Len(tasks) + 2 <= MaxUploads) =>
          LET s == Stem(f.name)
              st == UploadLoop(Self, <<f, g>>)
          IN /\ DOMAIN st.readers = DOMAIN readers \cup {s}
             /\ st.readers[s] = Len(tasks) + 2
             /\ st.tasks[Len(tasks) + 1].state = "aborted"
             /\ st.tasks[Len(tasks) + 2].state = "loading"

\* the entry a failed render left behind was replaced by a later upload of
\* the identifier
C19_Witness ==
    /\ Len(tasks) = 2
    /\ tasks[1].state = "panicked"
    /\ tasks[2].stem = tasks[1].stem
    /\ DOMAIN readers = {tasks[1].stem}
    /\ readers[tasks[1].stem] = 2

====
